---- MODULE Spec2Model ----
(***************************************************************************)
(* The childcare survey dashboard: utils.py (loader and aggregators) and   *)
(* main.py (the Streamlit script that loads, filters and aggregates).      *)
(*                                                                         *)
(* One run of the script is the sequence                                   *)
(*   load_data -> Apply filters -> NPS metrics -> correlation heatmap ->   *)
(*   feedback categories -> weekly response rate -> monthly trends,        *)
(* and a widget change reruns it from the top.  calculate_nps_score and    *)
(* get_top_concerns are defined in utils.py but not called by main.py;     *)
(* they are applied to the filtered table once the script is idle.         *)
(*                                                                         *)
(* Numbers that pandas holds as floats are kept as exact fractions         *)
(* [num, den]; den = 0 is NaN (the result of 0/0 and of an empty mean).    *)
(***************************************************************************)
EXTENDS Integers, Sequences, FiniteSets, TLC

\* ------------------------------------------------------------------ bounds
\* Most rows in an input table.
MaxRows == 3
\* Response dates are the days 1..MaxDate.
MaxDate == 2
\* 'Response Month (YYYY-MM)' labels are 1..MaxMonth, in lexicographic order.
MaxMonth == 2
\* Longest category cell that is enumerated exhaustively.
MaxCellLen == 3
\* Most rows in a table whose dates and cities are all enumerated.
MaxFilterRows == 2

\* ------------------------------------------------------------- option type
None == <<>>
Some(x) == <<x>>

\* ------------------------------------------------------------------- cells
\* A cell of the table read by pd.read_csv: missing (NaN), text or a number.
NaN == [k |-> "nan", s |-> "", n |-> 0]
Str(t) == [k |-> "str", s |-> t, n |-> 0]
Num(v) == [k |-> "num", s |-> "", n |-> v]

\* A category cell: missing, or a text held as a sequence of characters.
NaNCat == [k |-> "nan", s |-> <<>>]
Txt(cs) == [k |-> "str", s |-> cs]

\* ---------------------------------------------------------------- columns
date_columns == {"Survey Response Date [GMT]", "Survey Sent Date [GMT]", "Start Date"}

rating_columns == {"Ambience And Atmosphere", "Curriculum and Activities",
                   "Environment And Facilities", "Information and Experience",
                   "Questions", "Nutritious Meals", "Value For Money"}

category_columns == {"NPS Feedback Categories", "Improvement Feedback Categories"}

\* Every column utils.py or main.py reads by name: the required columns.
RequiredColumns == date_columns \cup rating_columns \cup category_columns
                   \cup {"City", "NPS", "NPS Label", "Response Month (YYYY-MM)"}

\* ---------------------------------------------------------- rating_map
\* rating_map with 0, not NaN, for a value that is no key.
rating_map_wrong_default(v) ==
    IF v = Str("5. Strongly Agree") THEN Num(5)
    ELSE IF v = Str("4. Agree") THEN Num(4)
    ELSE IF v = Str("3. Neither Agree nor Disagree") THEN Num(3)
    ELSE IF v = Str("2. Disagree") THEN Num(2)
    ELSE IF v = Str("1. Strongly Disagree") THEN Num(1)
    ELSE Num(0)

\* Series.map(rating_map): a value that is a key of the dict maps to its
\* score, anything else (other text, a number, NaN) to NaN.
rating_map(v) ==
    IF v = Str("5. Strongly Agree") THEN Num(5)
    ELSE IF v = Str("4. Agree") THEN Num(4)
    ELSE IF v = Str("3. Neither Agree nor Disagree") THEN Num(3)
    ELSE IF v = Str("2. Disagree") THEN Num(2)
    ELSE IF v = Str("1. Strongly Disagree") THEN Num(1)
    ELSE NaN

\* ------------------------------------------------------------------ rows
\* A date cell that pd.to_datetime cannot parse.
BadDate == 0

\* load_and_process_data on a file whose columns are `cols` and whose rows
\* (as pd.read_csv returns them) are `rows`.  df[col] on a missing date or
\* rating column raises KeyError; an unparseable date raises in to_datetime;
\* no other column is looked at.  Rows keep their order and their columns
\* and gain the seven <col>_Score columns.
load_and_process_data(file) ==
    IF ~(date_columns \subseteq file.cols) THEN [err |-> "KeyError", df |-> <<>>]
    ELSE IF \E i \in 1..Len(file.rows) : file.rows[i].date = BadDate
         THEN [err |-> "DateParseError", df |-> <<>>]
    ELSE IF ~(rating_columns \subseteq file.cols) THEN [err |-> "KeyError", df |-> <<>>]
    ELSE [err |-> "",
          df |-> [i \in 1..Len(file.rows) |->
                    [date |-> file.rows[i].date,
                     city |-> file.rows[i].city,
                     label |-> file.rows[i].label,
                     nps |-> file.rows[i].nps,
                     month |-> file.rows[i].month,
                     rating |-> file.rows[i].rating,
                     npsfb |-> file.rows[i].npsfb,
                     impfb |-> file.rows[i].impfb,
                     score |-> [c \in rating_columns |->
                                  rating_map(file.rows[i].rating[c])]]]]

\* -------------------------------------------------------------- fractions
Frac(n, d) == [num |-> n, den |-> d]
NaNF == Frac(0, 0)
IsNaN(f) == f.den = 0

\* count / total as numpy divides: 0/0 is NaN (a RuntimeWarning, no exception).
Div(count, total) == IF total = 0 THEN NaNF ELSE Frac(count, total)

\* f * m
Times(f, m) == IF IsNaN(f) THEN NaNF ELSE Frac(f.num * m, f.den)

\* a - b; NaN if either is.
FSub(a, b) ==
    IF IsNaN(a) \/ IsNaN(b) THEN NaNF
    ELSE Frac(a.num * b.den - b.num * a.den, a.den * b.den)

\* The integer nearest to n/d (d > 0), ties to the even one, as numpy rounds.
RoundHalfEven(n, d) ==
    LET q == n \div d
        r == n % d
    IN  IF 2 * r < d THEN q
        ELSE IF 2 * r > d THEN q + 1
        ELSE IF q % 2 = 0 THEN q ELSE q + 1

\* round(f, digits) with scale = 10^digits; NaN stays NaN.
Round(f, scale) ==
    IF IsNaN(f) THEN NaNF ELSE Frac(RoundHalfEven(f.num * scale, f.den), scale)

\* f rounded to a whole number, written over `scale`.
Round0(f, scale) ==
    IF IsNaN(f) THEN NaNF ELSE Frac(RoundHalfEven(f.num, f.den) * scale, scale)

\* ------------------------------------------------------- NPS aggregators
\* (df['NPS Label'] == value).sum(): a missing label equals nothing.
CountLabel(rows, value) ==
    Cardinality({i \in 1..Len(rows) : rows[i].label = Str(value)})

\* get_nps_distribution counting the label 'Passive' for the Passives.
get_nps_distribution_passive(rows) ==
    LET total == Len(rows)
    IN  [Promoters |-> Times(Div(CountLabel(rows, "Promoter"), total), 100),
         Passives |-> Times(Div(CountLabel(rows, "Passive"), total), 100),
         Detractors |-> Times(Div(CountLabel(rows, "Detractor"), total), 100)]

\* utils.py 36-47: the three label counts over the row count, times 100.
get_nps_distribution(rows) ==
    LET total == Len(rows)
        promoters == CountLabel(rows, "Promoter")
        passives == CountLabel(rows, "Neutral")
        detractors == CountLabel(rows, "Detractor")
    IN  [Promoters |-> Times(Div(promoters, total), 100),
         Passives |-> Times(Div(passives, total), 100),
         Detractors |-> Times(Div(detractors, total), 100)]

\* The four st.metric values of main.py, each rounded to one decimal.
key_metrics(nps_dist) ==
    [Overall |-> Round(FSub(nps_dist.Promoters, nps_dist.Detractors), 10),
     Promoters |-> Round(nps_dist.Promoters, 10),
     Passives |-> Round(nps_dist.Passives, 10),
     Detractors |-> Round(nps_dist.Detractors, 10)]

\* (df['NPS Label'] == value).mean(): NaN for an empty table.
MeanLabel(rows, value) == Div(CountLabel(rows, value), Len(rows))

\* calculate_nps_score rounding to a whole number.
calculate_nps_score_whole(rows) ==
    Round0(Times(FSub(MeanLabel(rows, "Promoter"), MeanLabel(rows, "Detractor")), 100), 10)

\* utils.py 218-223
calculate_nps_score(rows) ==
    LET promoters == MeanLabel(rows, "Promoter")
        detractors == MeanLabel(rows, "Detractor")
        nps_score == Times(FSub(promoters, detractors), 100)
    IN  Round(nps_score, 10)

\* ------------------------------------------------------------ Filter Stage
\* The value st.date_input returns: the default (min, max) of the response
\* dates until the user picks one; a 1-tuple while a range is half picked.
DateInputValue(d, picked) ==
    IF picked # <<>> THEN picked
    ELSE LET ds == {d[i].date : i \in 1..Len(d)}
         IN  <<CHOOSE x \in ds : \A y \in ds : x <= y,
               CHOOSE x \in ds : \A y \in ds : y <= x>>

\* sorted(df['City'].unique()): the options of the city multiselect.
CityOptions(d) == {d[i].city : i \in 1..Len(d)}

\* The Filter Stage narrowing the base table itself instead of a copy.
FilterStage_inplace(d, range, cities) ==
    LET byDate == IF Len(range) = 2
                  THEN SelectSeq(d, LAMBDA r : r.date >= range[1] /\ r.date <= range[2])
                  ELSE d
        byCity == IF cities # {}
                  THEN SelectSeq(byDate, LAMBDA r : r.city \in cities)
                  ELSE byDate
    IN  [df |-> byCity, filtered_df |-> byCity]

\* main.py lines 55-62: a copy of the base table narrowed by the date range
\* (only when it has two ends) and then by the cities (only when some are
\* selected).  The base table is returned as it was.
FilterStage(d, range, cities) ==
    LET copy == d
        byDate == IF Len(range) = 2
                  THEN SelectSeq(copy, LAMBDA r : r.date >= range[1] /\ r.date <= range[2])
                  ELSE copy
        byCity == IF cities # {}
                  THEN SelectSeq(byDate, LAMBDA r : r.city \in cities)
                  ELSE byDate
    IN  [df |-> d, filtered_df |-> byCity]

\* ---------------------------------------------------------------- strings
\* Texts are sequences of these characters.
Alphabet == {"a", "n", "N", ",", " ", "\""}

Whitespace == {" "}
Quote == {"\""}

\* str.lower()
LowerChar(c) == IF c = "N" THEN "n" ELSE c
Lower(t) == [i \in 1..Len(t) |-> LowerChar(t[i])]

RECURSIVE LStrip(_, _)
LStrip(t, cs) ==
    IF t # <<>> /\ Head(t) \in cs THEN LStrip(Tail(t), cs) ELSE t

RECURSIVE RStrip(_, _)
RStrip(t, cs) ==
    IF t # <<>> /\ t[Len(t)] \in cs THEN RStrip(SubSeq(t, 1, Len(t) - 1), cs) ELSE t

\* str.strip(): cs is Whitespace for strip() and Quote for strip('"').
Strip(t, cs) == RStrip(LStrip(t, cs), cs)

\* str.split(','): always at least one piece.
RECURSIVE Split(_)
Split(t) ==
    IF \A i \in 1..Len(t) : t[i] # ","
    THEN <<t>>
    ELSE LET k == CHOOSE i \in 1..Len(t) : t[i] = "," /\ \A j \in 1..(i - 1) : t[j] # ","
         IN  <<SubSeq(t, 1, k - 1)>> \o Split(SubSeq(t, k + 1, Len(t)))

RECURSIVE Flatten(_)
Flatten(ss) == IF ss = <<>> THEN <<>> ELSE Head(ss) \o Flatten(Tail(ss))

nan == <<"n", "a", "n">>

\* Series.fillna(''): a missing cell becomes the empty text.
fillna(cell) == IF cell.k = "nan" THEN Txt(<<>>) ELSE cell

\* pd.Series(tokens).value_counts(): how often each token occurs.
value_counts(tokens) ==
    [t \in {tokens[i] : i \in 1..Len(tokens)} |->
        Cardinality({i \in 1..Len(tokens) : tokens[i] = t})]

\* ------------------------------------------------ feedback categories
\* The comprehension of analyze_feedback_categories for one (filled) cell:
\* an empty row is skipped; a piece is kept when cat.strip() is not empty
\* and cat.lower() is not 'nan'; what is kept is cat.strip('"').
RowCategories(row) ==
    IF row = <<>> THEN <<>>
    ELSE LET pieces == Split(row)
             kept == SelectSeq(pieces,
                        LAMBDA cat : Strip(cat, Whitespace) # <<>> /\ Lower(cat) # nan)
         IN  [i \in 1..Len(kept) |-> Strip(kept[i], Quote)]

\* The tokens of one column, row after row.
ColumnCategories(rows, col) ==
    Flatten([i \in 1..Len(rows) |->
               RowCategories(IF col = "NPS Feedback Categories"
                             THEN fillna(rows[i].npsfb).s
                             ELSE fillna(rows[i].impfb).s)])

\* analyze_feedback_categories: each of the two columns of the table it is
\* given is overwritten by its fillna(''), the tokens of 'NPS Feedback
\* Categories' and then of 'Improvement Feedback Categories' are pooled and
\* counted, and the index 'nan' is dropped from the counts.
analyze_feedback_categories(rows) ==
    LET filled == [i \in 1..Len(rows) |->
                     [rows[i] EXCEPT !.npsfb = fillna(@), !.impfb = fillna(@)]]
        categories == ColumnCategories(rows, "NPS Feedback Categories")
                      \o ColumnCategories(rows, "Improvement Feedback Categories")
        counts == value_counts(categories)
    IN  [df |-> filled,
         category_counts |-> [t \in (DOMAIN counts) \ {nan} |-> counts[t]]]

\* ------------------------------------------------------- top concerns
\* get_top_concerns for one cell: fillna(''), strip('"') on the whole cell,
\* split on commas, keep the pieces whose strip() is not empty, each as
\* c.strip().strip('"').
RowConcerns(cell) ==
    LET x == Strip(fillna(cell).s, Quote)
        pieces == Split(x)
        kept == SelectSeq(pieces, LAMBDA c : Strip(c, Whitespace) # <<>>)
    IN  [i \in 1..Len(kept) |-> Strip(Strip(kept[i], Whitespace), Quote)]

\* The table is not written to.
get_top_concerns(rows) ==
    value_counts(Flatten([i \in 1..Len(rows) |-> RowConcerns(rows[i].impfb)]))

\* ------------------------------------------------- weekly response rate
DaysPerWeek == 7

\* The calendar week (ending on its last day) a day falls in.
Week(day) == (day + DaysPerWeek - 1) \div DaysPerWeek

\* df.resample('W', on=response date).size(): the number of rows of every
\* week from the first to the last one present; nothing for an empty table.
calculate_weekly_response_rate(rows) ==
    IF rows = <<>> THEN <<>>
    ELSE LET ws == {Week(rows[i].date) : i \in 1..Len(rows)}
             first == CHOOSE w \in ws : \A v \in ws : w <= v
             last == CHOOSE w \in ws : \A v \in ws : v <= w
         IN  [k \in 1..(last - first + 1) |->
                [week |-> first + k - 1,
                 count |-> Cardinality({i \in 1..Len(rows) :
                                          Week(rows[i].date) = first + k - 1})]]

\* ------------------------------------------------------- monthly trends
\* The columns create_monthly_trends aggregates: 'NPS' and three of the
\* rating columns as they are in the file (not their _Score columns).
trend_metrics == <<"NPS", "Ambience And Atmosphere", "Curriculum and Activities",
                   "Value For Money">>

ColumnCell(row, col) == IF col = "NPS" THEN row.nps ELSE row.rating[col]

RECURSIVE SumNums(_)
SumNums(cells) ==
    IF cells = <<>> THEN 0
    ELSE (IF Head(cells).k = "num" THEN Head(cells).n ELSE 0) + SumNums(Tail(cells))

\* Series.mean(): the mean of the numbers present, NaN when there is none.
Mean(cells) ==
    Div(SumNums(cells), Cardinality({i \in 1..Len(cells) : cells[i].k = "num"}))

RECURSIVE SortedSeq(_)
SortedSeq(S) ==
    IF S = {} THEN <<>>
    ELSE LET m == CHOOSE x \in S : \A y \in S : x <= y
         IN  <<m>> \o SortedSeq(S \ {m})

\* groupby('Response Month (YYYY-MM)').agg(mean).round(2): one entry per
\* month, months ascending.  'mean' of a column holding text raises
\* TypeError (err); otherwise each column's mean is over its own numbers.
create_monthly_trends(rows) ==
    LET months == SortedSeq({rows[i].month : i \in 1..Len(rows)})
        group(m) == SelectSeq(rows, LAMBDA r : r.month = m)
        column(m, col) == [i \in 1..Len(group(m)) |-> ColumnCell(group(m)[i], col)]
    IN  IF \E i \in 1..Len(rows) : \E j \in 1..Len(trend_metrics) :
              ColumnCell(rows[i], trend_metrics[j]).k = "str"
        THEN [err |-> "TypeError", monthly_trends |-> <<>>]
        ELSE [err |-> "",
              monthly_trends |->
                [k \in 1..Len(months) |->
                   [month |-> months[k],
                    mean |-> [j \in 1..Len(trend_metrics) |->
                                Round(Mean(column(months[k], trend_metrics[j])), 100)]]]]

\* ---------------------------------------------------- correlation heatmap
corr_metrics == {"NPS"} \cup rating_columns

\* df[metrics].corr() over 'NPS' and the seven rating columns as they are in
\* the file.  With text in one of them the pandas in use decides: it raises
\* ValueError, or leaves the text columns out of the matrix.  The result kept
\* here is the set of columns of the matrix; the table is not written to.
TextColumns(rows) ==
    {c \in corr_metrics : \E i \in 1..Len(rows) : ColumnCell(rows[i], c).k = "str"}

create_correlation_heatmap(rows) ==
    IF TextColumns(rows) = {}
    THEN {[err |-> "", corr_matrix |-> corr_metrics]}
    ELSE {[err |-> "ValueError", corr_matrix |-> {}],
          [err |-> "", corr_matrix |-> corr_metrics \ TextColumns(rows)]}

\* ------------------------------------------------------------------ state
VARIABLES
    file,              \* attached_assets/df_clean.csv: [cols, rows], never written
    pc,                \* where the script is
    error,             \* the exception that stopped the run, "" if none
    df,                \* load_data()'s cached table: None or Some(rows)
    date_range,        \* the date widget: <<>> until the user picks a value
    selected_cities,   \* the city multiselect
    filtered_df,       \* None or Some(rows)
    nps_dist,          \* get_nps_distribution's result
    metrics,           \* the four st.metric values
    corr_matrix,       \* the columns of the correlation matrix
    category_counts,   \* analyze_feedback_categories' counts
    weekly_counts,     \* calculate_weekly_response_rate's series
    monthly_trends,    \* create_monthly_trends' table
    nps_score,         \* calculate_nps_score's result
    concern_counts     \* get_top_concerns' result

vars == <<file, pc, error, df, date_range, selected_cities, filtered_df, nps_dist,
          metrics, corr_matrix, category_counts, weekly_counts, monthly_trends,
          nps_score, concern_counts>>

outputs == <<filtered_df, nps_dist, metrics, corr_matrix, category_counts,
             weekly_counts, monthly_trends, nps_score, concern_counts>>

Dates == 1..MaxDate
Months == 1..MaxMonth
Cities == {"A", "B"}

\* What the date widget can return once the user has touched it.
DateRanges == {<<d>> : d \in Dates} \cup {r \in Dates \X Dates : r[1] <= r[2]}

\* ------------------------------------------------------------ input tables
DefaultRating == [c \in rating_columns |-> Str("4. Agree")]

DefaultRow == [date |-> 1, city |-> "A", label |-> Str("Promoter"), nps |-> Num(9),
               month |-> 1, rating |-> DefaultRating,
               npsfb |-> Txt(<<"a">>), impfb |-> NaNCat]

\* Before the first run: nothing loaded, widgets untouched.
Start(f) ==
    /\ file = f
    /\ pc = "start"
    /\ error = ""
    /\ df = None
    /\ date_range = <<>>
    /\ selected_cities = {}
    /\ filtered_df = None
    /\ nps_dist = None
    /\ metrics = None
    /\ corr_matrix = None
    /\ category_counts = None
    /\ weekly_counts = None
    /\ monthly_trends = None
    /\ nps_score = None
    /\ concern_counts = None

\* ---------------------------------------------------------------- actions
Raise(e) ==
    /\ pc' = "error"
    /\ error' = e

\* main.py 29-33: load_data(), cached by st.cache_data once it has returned.
LoadData ==
    /\ pc = "start"
    /\ IF df # None
       THEN /\ pc' = "loaded"
            /\ UNCHANGED <<error, df>>
       ELSE LET r == load_and_process_data(file)
            IN  IF r.err # ""
                THEN Raise(r.err) /\ UNCHANGED df
                ELSE /\ df' = Some(r.df)
                     /\ pc' = "loaded"
                     /\ UNCHANGED error
    /\ UNCHANGED <<file, date_range, selected_cities, outputs>>

\* main.py 35-62: the widgets are read and the filters applied.
ApplyFilters ==
    /\ pc = "loaded"
    /\ IF "City" \notin file.cols
       THEN Raise("KeyError") /\ UNCHANGED <<df, filtered_df>>
       ELSE LET r == FilterStage(df[1], DateInputValue(df[1], date_range), selected_cities)
            IN  /\ df' = Some(r.df)
                /\ filtered_df' = Some(r.filtered_df)
                /\ pc' = "filtered"
                /\ UNCHANGED error
    /\ UNCHANGED <<file, date_range, selected_cities, nps_dist, metrics, corr_matrix,
                   category_counts, weekly_counts, monthly_trends, nps_score, concern_counts>>

\* main.py 64-82: the NPS distribution, its four metrics and its chart.
KeyMetrics ==
    /\ pc = "filtered"
    /\ IF "NPS Label" \notin file.cols
       THEN Raise("KeyError") /\ UNCHANGED <<nps_dist, metrics>>
       ELSE /\ nps_dist' = Some(get_nps_distribution(filtered_df[1]))
            /\ metrics' = Some(key_metrics(get_nps_distribution(filtered_df[1])))
            /\ pc' = "metrics"
            /\ UNCHANGED error
    /\ UNCHANGED <<file, df, date_range, selected_cities, filtered_df, corr_matrix,
                   category_counts, weekly_counts, monthly_trends, nps_score, concern_counts>>

\* main.py 84-87
CorrelationHeatmap ==
    /\ pc = "metrics"
    /\ IF "NPS" \notin file.cols
       THEN Raise("KeyError") /\ UNCHANGED corr_matrix
       ELSE \E r \in create_correlation_heatmap(filtered_df[1]) :
              IF r.err # ""
              THEN Raise(r.err) /\ UNCHANGED corr_matrix
              ELSE /\ corr_matrix' = Some(r.corr_matrix)
                   /\ pc' = "corr"
                   /\ UNCHANGED error
    /\ UNCHANGED <<file, df, date_range, selected_cities, filtered_df, nps_dist, metrics,
                   category_counts, weekly_counts, monthly_trends, nps_score, concern_counts>>

\* main.py 89-92.  A missing category column raises KeyError when the loop
\* reaches it: 'NPS Feedback Categories' is already filled in when
\* 'Improvement Feedback Categories' is the missing one.
AnalyzeFeedback ==
    /\ pc = "corr"
    /\ LET rows == filtered_df[1]
           r == analyze_feedback_categories(rows)
       IN  IF "NPS Feedback Categories" \notin file.cols
           THEN Raise("KeyError") /\ UNCHANGED <<filtered_df, category_counts>>
           ELSE IF "Improvement Feedback Categories" \notin file.cols
           THEN /\ Raise("KeyError")
                /\ filtered_df' = Some([i \in 1..Len(rows) |->
                                          [rows[i] EXCEPT !.npsfb = fillna(@)]])
                /\ UNCHANGED category_counts
           ELSE /\ filtered_df' = Some(r.df)
                /\ category_counts' = Some(r.category_counts)
                /\ pc' = "feedback"
                /\ UNCHANGED error
    /\ UNCHANGED <<file, df, date_range, selected_cities, nps_dist, metrics, corr_matrix,
                   weekly_counts, monthly_trends, nps_score, concern_counts>>

\* main.py 94-97
WeeklyResponseRate ==
    /\ pc = "feedback"
    /\ weekly_counts' = Some(calculate_weekly_response_rate(filtered_df[1]))
    /\ pc' = "weekly"
    /\ UNCHANGED <<file, error, df, date_range, selected_cities, filtered_df, nps_dist,
                   metrics, corr_matrix, category_counts, monthly_trends, nps_score,
                   concern_counts>>

\* main.py 99-102
MonthlyTrends ==
    /\ pc = "weekly"
    /\ LET r == create_monthly_trends(filtered_df[1])
       IN  IF ~({"Response Month (YYYY-MM)", "NPS"} \subseteq file.cols)
           THEN Raise("KeyError") /\ UNCHANGED monthly_trends
           ELSE IF r.err # ""
           THEN Raise(r.err) /\ UNCHANGED monthly_trends
           ELSE /\ monthly_trends' = Some(r.monthly_trends)
                /\ pc' = "done"
                /\ UNCHANGED error
    /\ UNCHANGED <<file, df, date_range, selected_cities, filtered_df, nps_dist, metrics,
                   corr_matrix, category_counts, weekly_counts, nps_score, concern_counts>>

\* The script has ended, normally or with an exception, and left a filtered table.
Idle == pc \in {"done", "error"} /\ filtered_df # None

\* utils.calculate_nps_score applied to the filtered table.
CalculateNpsScore ==
    /\ Idle
    /\ "NPS Label" \in file.cols
    /\ nps_score = None
    /\ nps_score' = Some(calculate_nps_score(filtered_df[1]))
    /\ UNCHANGED <<file, pc, error, df, date_range, selected_cities, filtered_df, nps_dist,
                   metrics, corr_matrix, category_counts, weekly_counts, monthly_trends,
                   concern_counts>>

\* utils.get_top_concerns applied to the filtered table.
GetTopConcerns ==
    /\ Idle
    /\ "Improvement Feedback Categories" \in file.cols
    /\ concern_counts = None
    /\ concern_counts' = Some(get_top_concerns(filtered_df[1]))
    /\ UNCHANGED <<file, pc, error, df, date_range, selected_cities, filtered_df, nps_dist,
                   metrics, corr_matrix, category_counts, weekly_counts, monthly_trends,
                   nps_score>>

\* A widget change reruns the script from the top: the widgets keep their new
\* values, the cached table stays, everything the run computed is gone.
\* Without a loaded table there are no widgets to change.
Rerun ==
    /\ pc \in {"done", "error"}
    /\ \E range \in (IF df = None THEN {date_range} ELSE DateRanges) :
       \E cities \in (IF df = None THEN {selected_cities} ELSE SUBSET CityOptions(df[1])) :
            /\ date_range' = range
            /\ selected_cities' = cities
    /\ pc' = "start"
    /\ error' = ""
    /\ filtered_df' = None
    /\ nps_dist' = None
    /\ metrics' = None
    /\ corr_matrix' = None
    /\ category_counts' = None
    /\ weekly_counts' = None
    /\ monthly_trends' = None
    /\ nps_score' = None
    /\ concern_counts' = None
    /\ UNCHANGED <<file, df>>

Next ==
    \/ LoadData
    \/ ApplyFilters
    \/ KeyMetrics
    \/ CorrelationHeatmap
    \/ AnalyzeFeedback
    \/ WeeklyResponseRate
    \/ MonthlyTrends
    \/ CalculateNpsScore
    \/ GetTopConcerns
    \/ Rerun

\* --------------------------------------------------------- specifications
\* Tables of 1..MaxRows rows that differ from DefaultRow in their labels.
NpsLabels == {Str("Promoter"), Str("Neutral"), Str("Detractor"), Str("Passive"), NaN}

InitNps ==
    \E n \in 1..MaxRows : \E labels \in [1..n -> NpsLabels] :
        Start([cols |-> RequiredColumns,
               rows |-> [i \in 1..n |-> [DefaultRow EXCEPT !.label = labels[i]]]])

SpecNps == InitNps /\ [][Next]_vars

\* ------------------------------------------------------ NPS distribution
Abs(x) == IF x < 0 THEN -x ELSE x

\* a = b as numbers; NaN equals nothing.
FEq(a, b) == ~IsNaN(a) /\ ~IsNaN(b) /\ a.num * b.den = b.num * a.den

InPercentRange(f) == ~IsNaN(f) /\ 0 <= f.num /\ f.num <= 100 * f.den

SumsTo100(d) ==
    LET a == d.Promoters
        b == d.Passives
        c == d.Detractors
    IN  /\ ~IsNaN(a) /\ ~IsNaN(b) /\ ~IsNaN(c)
        /\ a.num * b.den * c.den + b.num * a.den * c.den + c.num * a.den * b.den
             = 100 * a.den * b.den * c.den

ValidDistribution(d) ==
    /\ InPercentRange(d.Promoters)
    /\ InPercentRange(d.Passives)
    /\ InPercentRange(d.Detractors)
    /\ SumsTo100(d)

NpsVocabulary == {Str("Promoter"), Str("Neutral"), Str("Detractor")}

LabelsInVocabulary(rows) == \A i \in 1..Len(rows) : rows[i].label \in NpsVocabulary

\* C1 as stated: for every table with at least one row, whatever its labels,
\* the three percentages are each in [0,100] and sum to 100.
C1_AnyLabels ==
    (nps_dist # None /\ filtered_df[1] # <<>>) => ValidDistribution(nps_dist[1])

\* C1 amended: for every table with at least one row the three percentages
\* are each in [0,100]; they sum to 100 when every 'NPS Label' is one of
\* Promoter, Neutral, Detractor.
C1_VocabularyLabels ==
    (nps_dist # None /\ filtered_df[1] # <<>>) =>
        /\ InPercentRange(nps_dist[1].Promoters)
        /\ InPercentRange(nps_dist[1].Passives)
        /\ InPercentRange(nps_dist[1].Detractors)
        /\ LabelsInVocabulary(filtered_df[1]) => SumsTo100(nps_dist[1])

\* A table of three rows, one of each label, has its distribution.
C1_Witness ==
    /\ nps_dist # None
    /\ Len(filtered_df[1]) = 3
    /\ {filtered_df[1][i].label : i \in 1..3} = NpsVocabulary

\* C2: for a filtered table with zero rows get_nps_distribution returns 0 for
\* all three buckets, never an undefined (NaN) percentage.
C2_EmptyIsZero ==
    (nps_dist # None /\ filtered_df[1] = <<>>) =>
        \A f \in {nps_dist[1].Promoters, nps_dist[1].Passives, nps_dist[1].Detractors} :
            ~IsNaN(f) /\ f.num = 0

\* C8 as stated: the overall NPS score, from calculate_nps_score and as main's
\* metric, is exactly Promoters% - Detractors% of get_nps_distribution.
C8_ExactDifference ==
    (nps_dist # None /\ nps_score # None) =>
        LET e == FSub(nps_dist[1].Promoters, nps_dist[1].Detractors)
        IN  FEq(nps_score[1], e) /\ FEq(metrics[1].Overall, e)

\* x is a number of tenths at most 0.05 away from e.
RoundedToTenth(x, e) ==
    /\ ~IsNaN(x) /\ ~IsNaN(e)
    /\ x.den = 10
    /\ 2 * Abs(x.num * e.den - 10 * e.num) <= e.den

\* C8 amended: for a table with at least one row, calculate_nps_score and
\* main's metric are Promoters% - Detractors% rounded to one decimal (a
\* multiple of 0.1 at most 0.05 away); for a zero-row table both are NaN.
C8_RoundedDifference ==
    (nps_dist # None /\ nps_score # None) =>
        LET e == FSub(nps_dist[1].Promoters, nps_dist[1].Detractors)
        IN  IF filtered_df[1] = <<>>
            THEN IsNaN(nps_score[1]) /\ IsNaN(metrics[1].Overall)
            ELSE RoundedToTenth(nps_score[1], e) /\ RoundedToTenth(metrics[1].Overall, e)

\* Both scores are computed for a table whose difference has more than one
\* decimal (one promoter in three rows).
C8_Witness ==
    /\ nps_dist # None
    /\ nps_score # None
    /\ Len(filtered_df[1]) = 3
    /\ CountLabel(filtered_df[1], "Promoter") = 1
    /\ CountLabel(filtered_df[1], "Detractor") = 0
    /\ nps_score[1] = Frac(333, 10)
    /\ metrics[1].Overall = Frac(333, 10)

\* ----------------------------------------------------------------- loader
\* What a rating cell can hold after pd.read_csv (an empty cell is read as
\* NaN): the five phrases, other text, nothing, a number.
LikertPhrases == {"5. Strongly Agree", "4. Agree", "3. Neither Agree nor Disagree",
                  "2. Disagree", "1. Strongly Disagree"}

RatingCells == {Str(t) : t \in LikertPhrases}
               \cup {Str("garbage"), Str("5. strongly agree"), Str("Strongly Agree"),
                     Str("5"), NaN, Num(5)}

\* Files with one required column missing and default rows, and complete
\* files with one rating cell of the first row drawn from RatingCells (a
\* number only in a one-row file: beside text pd.read_csv reads it as text);
\* the first row's response date may be unparseable.
InitLoad ==
    \E missing \in {{}} \cup {{c} : c \in RequiredColumns} :
    \E n \in 1..MaxRows : \E d \in {BadDate, 1} :
    \E c \in rating_columns : \E v \in RatingCells :
        /\ missing # {} => (c = "Questions" /\ v = Str("4. Agree"))
        /\ v.k = "num" => n = 1
        /\ Start([cols |-> RequiredColumns \ missing,
                  rows |-> [i \in 1..n |->
                              IF i = 1
                              THEN [DefaultRow EXCEPT !.date = d, !.rating[c] = v]
                              ELSE DefaultRow]])

SpecLoad == InitLoad /\ [][Next]_vars

\* C4: when a required column is absent from the file, load_and_process_data
\* fails and returns no dataset, and no aggregator runs.
C4_MissingColumnFailsLoad ==
    (RequiredColumns \ file.cols # {} /\ pc # "start") =>
        /\ df = None
        /\ pc = "error"
        /\ filtered_df = None
        /\ nps_dist = None

\* The score the rating normalizer is to give: 5..1 for the five phrases,
\* absent for everything else.
LikertScore(t) ==
    CASE t = "5. Strongly Agree" -> 5
      [] t = "4. Agree" -> 4
      [] t = "3. Neither Agree nor Disagree" -> 3
      [] t = "2. Disagree" -> 2
      [] t = "1. Strongly Disagree" -> 1

ExpectedScore(cell) ==
    IF cell.k = "str" /\ cell.s \in LikertPhrases THEN Num(LikertScore(cell.s)) ELSE NaN

\* C5: in each of the seven rating columns the five phrases map to 5, 4, 3,
\* 2, 1 and every other value to an absent score, never 0, and no value of a
\* rating cell makes the load fail.
C5_RatingNormalizer ==
    /\ df # None =>
          \A i \in 1..Len(df[1]) : \A c \in rating_columns :
              /\ df[1][i].score[c] = ExpectedScore(file.rows[i].rating[c])
              /\ df[1][i].score[c] # Num(0)
    /\ (/\ pc # "start"
        /\ date_columns \cup rating_columns \subseteq file.cols
        /\ \A i \in 1..Len(file.rows) : file.rows[i].date # BadDate)
          => df # None

\* A loaded table with an unrecognized text scored absent next to a phrase
\* scored 4.
C5_Witness ==
    /\ df # None
    /\ \E c \in rating_columns :
          /\ df[1][1].rating[c] = Str("garbage")
          /\ df[1][1].score[c] = NaN
    /\ \E c \in rating_columns :
          /\ df[1][1].rating[c] = Str("4. Agree")
          /\ df[1][1].score[c] = Num(4)

\* ------------------------------------------------------------ Filter Stage
\* Tables of 1..MaxFilterRows rows with every choice of dates and cities.
InitFilter ==
    \E n \in 1..MaxFilterRows : \E ds \in [1..n -> Dates] : \E cs \in [1..n -> Cities] :
        Start([cols |-> RequiredColumns,
               rows |-> [i \in 1..n |->
                           [DefaultRow EXCEPT !.date = ds[i], !.city = cs[i]]]])

SpecFilter == InitFilter /\ [][Next]_vars

\* The rows of the file, as loaded, that the widgets' current values select.
SelectedRows ==
    LET base == load_and_process_data(file).df
        range == DateInputValue(base, date_range)
    IN  SelectSeq(base, LAMBDA r :
            /\ Len(range) = 2 => (range[1] <= r.date /\ r.date <= range[2])
            /\ selected_cities # {} => r.city \in selected_cities)

\* C6: the Filter Stage never changes the loaded base table, and after any
\* sequence of filter changes the derived table is the one the current date
\* range and city set select from it.
C6_FilterDependsOnParametersOnly ==
    /\ df # None => df[1] = load_and_process_data(file).df
    /\ pc = "filtered" => filtered_df[1] = SelectedRows

\* After a filter change, a derived table that is a proper, non-empty part
\* of the base table, selected by both a date range and a city set.
C6_Witness ==
    /\ pc = "filtered"
    /\ Len(date_range) = 2
    /\ selected_cities # {}
    /\ filtered_df[1] # <<>>
    /\ Len(filtered_df[1]) < Len(df[1])

\* ---------------------------------------------------------- monthly trends
\* Tables of 1..MaxRows rows with every choice of month, NPS and 'Ambience
\* And Atmosphere' cell; the rating columns hold text (the phrases) or, in
\* a file whose rating columns are numeric, numbers.
InitTrends ==
    \E kind \in {"text", "number"} : \E n \in 1..MaxRows :
    \E ms \in [1..n -> Months] :
    \E ns \in [1..n -> {NaN, Num(8), Num(9)}] :
    \E as \in [1..n -> IF kind = "text" THEN {Str("5. Strongly Agree"), NaN}
                                        ELSE {Num(5), NaN}] :
        Start([cols |-> RequiredColumns,
               rows |-> [i \in 1..n |->
                           [DefaultRow EXCEPT
                              !.month = ms[i],
                              !.nps = ns[i],
                              !.rating = [c \in rating_columns |->
                                            IF c = "Ambience And Atmosphere" THEN as[i]
                                            ELSE IF kind = "text" THEN Str("4. Agree")
                                            ELSE Num(4)]]]])

SpecTrends == InitTrends /\ [][Next]_vars

\* The four fields of the monthly trend: NPS and the three scores.
TrendField(row, j) ==
    CASE j = 1 -> row.nps
      [] j = 2 -> row.score["Ambience And Atmosphere"]
      [] j = 3 -> row.score["Curriculum and Activities"]
      [] j = 4 -> row.score["Value For Money"]

\* The mean of field j over the rows of month m in which it is present.
FieldMean(rows, m, j) ==
    LET present == {i \in 1..Len(rows) : rows[i].month = m /\ TrendField(rows[i], j).k = "num"}
        RECURSIVE Sum(_)
        Sum(S) == IF S = {} THEN 0
                  ELSE LET i == CHOOSE x \in S : TRUE
                       IN  TrendField(rows[i], j).n + Sum(S \ {i})
    IN  IF present = {} THEN NaNF ELSE Frac(Sum(present), Cardinality(present))

\* Entry for entry the same numbers (to two decimals), NaN where both are.
SameMeans(got, rows) ==
    /\ Len(got) = Cardinality({rows[i].month : i \in 1..Len(rows)})
    /\ \A k \in 1..Len(got) :
          /\ got[k].month \in {rows[i].month : i \in 1..Len(rows)}
          /\ \A l \in 1..Len(got) : k < l => got[k].month < got[l].month
          /\ \A j \in 1..4 :
                LET want == Round(FieldMean(rows, got[k].month, j), 100)
                IN  IF IsNaN(want) THEN IsNaN(got[k].mean[j]) ELSE FEq(got[k].mean[j], want)

\* C7: create_monthly_trends reports, month by month in ascending order, for
\* NPS and the Ambience, Curriculum and Value-for-Money scores the mean over
\* the rows of the month in which that field is present.
C7_MonthlyMeansOfScores ==
    (weekly_counts # None /\ pc \in {"done", "error"}) =>
        /\ monthly_trends # None
        /\ SameMeans(monthly_trends[1], filtered_df[1])

\* ------------------------------------------------------------- categories
\* The texts pd.read_csv reads as missing, among those over Alphabet.
NaValues == {<<>>, nan, <<"N", "a", "N">>}

ReadCell(t) == IF t \in NaValues THEN NaNCat ELSE Txt(t)

\* Every cell of at most MaxCellLen characters.
ShortCells == {ReadCell(t) : t \in UNION {[1..k -> Alphabet] : k \in 0..MaxCellLen}}

\* "a, n", "a,nan", "a, NaN" and a quoted "a".
LongCells == {Txt(<<"a", ",", " ", "n">>),
              Txt(<<"a", ",", "n", "a", "n">>),
              Txt(<<"a", ",", " ", "N", "a", "N">>),
              Txt(<<"\"", "a", "\"">>)}

\* Tables of 1..MaxFilterRows rows whose first row has any short or long
\* cell as its improvement categories and a long or missing cell as its NPS
\* categories.
InitCategories ==
    \E n \in 1..MaxFilterRows :
    \E x \in ShortCells \cup LongCells : \E y \in LongCells \cup {NaNCat} :
        Start([cols |-> RequiredColumns,
               rows |-> [i \in 1..n |->
                           IF i = 1 THEN [DefaultRow EXCEPT !.npsfb = y, !.impfb = x]
                           ELSE DefaultRow]])

SpecCategories == InitCategories /\ [][Next]_vars

\* The parsing rule of the spec for one cell: split on commas, strip
\* whitespace and surrounding quotes from each token, discard the tokens
\* that are then empty or, whatever their case, "nan".
RuleTokens(cell) ==
    LET pieces == Split(fillna(cell).s)
        tokens == [i \in 1..Len(pieces) |-> Strip(pieces[i], Whitespace \cup Quote)]
    IN  SelectSeq(tokens, LAMBDA t : t # <<>> /\ Lower(t) # nan)

RuleCounts(rows, both) ==
    value_counts(Flatten([i \in 1..Len(rows) |->
                            (IF both THEN RuleTokens(rows[i].npsfb) ELSE <<>>)
                            \o RuleTokens(rows[i].impfb)]))

\* C3: analyze_feedback_categories counts exactly the tokens the parsing rule
\* gives for the two category fields of every row.
C3_CategoriesFollowRule ==
    category_counts # None => category_counts[1] = RuleCounts(filtered_df[1], TRUE)

\* C9: get_top_concerns counts exactly the tokens the parsing rule gives for
\* the 'Improvement Feedback Categories' field alone.
C9_ConcernsFollowRule ==
    concern_counts # None => concern_counts[1] = RuleCounts(filtered_df[1], FALSE)

\* C10: no aggregator changes a cell of the table it is given: whichever
\* aggregators have run, the filtered table is as the Filter Stage made it.
C10_AggregatorsLeaveTable ==
    filtered_df # None => filtered_df[1] = SelectedRows

====
